---- MODULE Spec2Model ----
(***************************************************************************)
(* A model of the OpenProject MCP server: settings resolution              *)
(* (openproject/config.py), startup and tool-surface selection             *)
(* (openproject/server.py: load_openapi_spec, create_mcp_server, main) and *)
(* the manual fallback tools registered by create_mcp_server.              *)
(*                                                                         *)
(* Python strings that the code inspects (startswith, rstrip, len, int)    *)
(* are sequences of one-character strings.  Messages and names the code    *)
(* only passes around are TLA+ strings.  A Python call either returns a    *)
(* value, [ok |-> TRUE, val |-> v], or raises, [ok |-> FALSE, err |-> e].  *)
(***************************************************************************)
EXTENDS Integers, Sequences, FiniteSets, TLC

VARIABLES
    \* ---- OpenProjectSettings(base_url=..., api_key=..., timeout=...)
    in_base_url,    \* the base_url handed to the validators
    in_api_key,     \* the api_key handed to the validators
    set_pc,         \* "start" before cls(...) is called, "done" after
    built,          \* the outcome of cls(...)
    \* ---- OpenProjectSettings.create_with_fallback()
    env,            \* os.environ: a function from the names that are set
    cfg_pc,         \* position inside create_with_fallback
    smithery_mappings, \* the dict built at config.py:65
    cfg_result,     \* the outcome of create_with_fallback
    \* ---- main() and create_mcp_server()
    spec_file,      \* spec.yml on disk: whether it exists and what it parses to
    main_pc,        \* position inside main / create_mcp_server
    config,         \* the Settings created at server.py:59
    client,         \* the httpx.AsyncClient of server.py:64, with its request count
    openapi_spec,   \* the document loaded at server.py:69
    mcp_server,     \* the tool registry: the registrations made, in order
    fallback_taken, \* whether the except branch of server.py:84 ran
    translated,     \* how FastMCPOpenAPI(...) ended and what it returned
    error,          \* the exception in flight while startup unwinds
    routes,         \* the routes added to the Starlette app by main
    \* ---- one invocation of a manual tool
    remote,         \* what the remote OpenProject instance holds
    tool,           \* the tool being invoked
    args,           \* its arguments
    tool_pc,        \* "idle", "awaiting" (suspended in client.get) or "done"
    calls,          \* the GETs issued on the client by this invocation, in order
    rp,             \* the locals of generate_weekly_report across its awaits
    result,         \* what the invocation handed back to the protocol layer
    \* ---- history of the invocation
    answers,        \* the outcome of every awaited GET, in order
    raised_tool,    \* an exception reached the tool's own try/except
    raised_helper,  \* an exception was raised inside _calculate_project_completion
    opens           \* the open-work-package data behind each report entry

settingsVars == <<in_base_url, in_api_key, set_pc, built>>
fallbackVars == <<env, cfg_pc, smithery_mappings, cfg_result>>
startupVars == <<spec_file, main_pc, config, client, openapi_spec, mcp_server,
                 fallback_taken, translated, error, routes>>
toolVars == <<remote, tool, args, tool_pc, calls, rp, result, answers, raised_tool,
              raised_helper, opens>>
vars == <<in_base_url, in_api_key, set_pc, built, env, cfg_pc, smithery_mappings, cfg_result,
          spec_file, main_pc, config, client, openapi_spec, mcp_server,
          fallback_taken, translated, error, routes,
          remote, tool, args, tool_pc, calls, rp, result, answers, raised_tool,
          raised_helper, opens>>

\* ------------------------------------------------------------------ bounds
\* Longest tail appended to a URL prefix in the enumerated base_url inputs.
MaxUrlTail == 2
\* Longest api_key enumerated.
MaxKeyLen == 11

\* ------------------------------------------------------- Python primitives
Ok(v) == [ok |-> TRUE, val |-> v]
Raise(e) == [ok |-> FALSE, err |-> e]

\* str.startswith(prefix)
StartsWith(v, p) == Len(v) >= Len(p) /\ SubSeq(v, 1, Len(p)) = p

\* str.rstrip(c): drops every trailing c
RECURSIVE RStrip(_, _)
RStrip(v, c) ==
    IF v # <<>> /\ v[Len(v)] = c THEN RStrip(SubSeq(v, 1, Len(v) - 1), c) ELSE v

Digits == <<"0", "1", "2", "3", "4", "5", "6", "7", "8", "9">>
DigitVal(c) == (CHOOSE i \in 1..10 : Digits[i] = c) - 1
IsDigit(c) == \E i \in 1..10 : Digits[i] = c

RECURSIVE DecVal(_)
DecVal(s) == IF s = <<>> THEN 0 ELSE 10 * DecVal(SubSeq(s, 1, Len(s) - 1)) + DigitVal(s[Len(s)])

\* int(s) on a str: a non-empty run of decimal digits parses, anything else
\* raises ValueError.
PyInt(s) ==
    IF s # <<>> /\ \A i \in 1..Len(s) : IsDigit(s[i])
    THEN Ok(DecVal(s))
    ELSE Raise("invalid literal for int() with base 10")

\* ------------------------------------------------------------ config.py
Http == <<"h", "t", "t", "p", ":", "/", "/">>
Https == <<"h", "t", "t", "p", "s", ":", "/", "/">>

MinApiKeyLen == 10
DefaultTimeout == 30

\* config.py:22-26
validate_base_url(v) ==
    IF ~(StartsWith(v, Http) \/ StartsWith(v, Https))
    THEN Raise("base_url must start with http:// or https://")
    ELSE Ok(RStrip(v, "/"))

\* config.py:28-32
validate_api_key(v) ==
    IF Len(v) < MinApiKeyLen THEN Raise("api_key appears too short") ELSE Ok(v)

\* The optional arguments of cls(...): a field that is not given is the empty
\* set, a given one the singleton of its value.
Missing == {}
Given(v) == {v}
ValueOf(opt) == CHOOSE v \in opt : TRUE

\* cls(base_url=..., api_key=..., timeout=...): pydantic runs the field
\* validators in declaration order and raises one ValidationError naming the
\* first failing field; timeout is an int field with default 30 that is parsed
\* from its string.
OpenProjectSettings(base_url, api_key, timeout) ==
    LET u == IF base_url = Missing THEN Raise("base_url field required")
             ELSE validate_base_url(ValueOf(base_url))
        k == IF api_key = Missing THEN Raise("api_key field required")
             ELSE validate_api_key(ValueOf(api_key))
        t == IF timeout = Missing THEN Ok(DefaultTimeout)
             ELSE IF PyInt(ValueOf(timeout)).ok THEN PyInt(ValueOf(timeout))
             ELSE Raise("timeout value is not a valid integer")
    IN  IF ~u.ok THEN u
        ELSE IF ~k.ok THEN k
        ELSE IF ~t.ok THEN t
        ELSE Ok([base_url |-> u.val, api_key |-> k.val, timeout |-> t.val])

\* os.getenv(name): None (Missing) when the name is not set
GetEnv(e, name) == IF name \in DOMAIN e THEN Given(e[name]) ELSE Missing

\* class Config: env_prefix = "OPENPROJECT"; pydantic reads prefix + field name
PrimaryName == [base_url |-> "OPENPROJECTBASE_URL", api_key |-> "OPENPROJECTAPI_KEY",
                timeout |-> "OPENPROJECTTIMEOUT"]
SmitheryName == [base_url |-> "openprojectBaseUrl", api_key |-> "openprojectApiKey",
                 timeout |-> "openprojectTimeout"]
EnvNames == {PrimaryName[f] : f \in DOMAIN PrimaryName} \cup {SmitheryName[f] : f \in DOMAIN SmitheryName}

\* The settings source is case-insensitive: it lower-cases every name of
\* os.environ and looks each field up under lower(env_prefix + field).
\* "openprojectTimeout" therefore names the timeout field as well, while
\* "openprojectBaseUrl" and "openprojectApiKey" (no underscore) name no field.
ReadBy == [base_url |-> {PrimaryName.base_url}, api_key |-> {PrimaryName.api_key},
           timeout |-> {PrimaryName.timeout, SmitheryName.timeout}]

\* What cls() can find for a field: of two names that lower-case alike, the
\* one os.environ happens to list last
Seen(e, f) ==
    IF ReadBy[f] \cap DOMAIN e = {} THEN {Missing} ELSE {Given(e[n]) : n \in ReadBy[f] \cap DOMAIN e}

\* cls(): every field read from the environment, the timeout being t
SettingsFromEnv(e, t) ==
    OpenProjectSettings(GetEnv(e, PrimaryName.base_url), GetEnv(e, PrimaryName.api_key), t)

RequiredMessage == [base_url |-> "OPENPROJECT_BASE_URL or openprojectBaseUrl is required",
                    api_key |-> "OPENPROJECT_API_KEY or openprojectApiKey is required"]

\* `not x` on an Optional[str]: None and "" are both falsy
Falsy(opt) == opt = Missing \/ ValueOf(opt) = <<>>

\* ------------------------------------------------- enumerated inputs
RECURSIVE SeqsUpTo(_, _)
SeqsUpTo(S, n) ==
    IF n = 0 THEN {<<>>}
    ELSE LET shorter == SeqsUpTo(S, n - 1)
         IN  shorter \cup {Append(s, x) : s \in shorter, x \in S}

UrlPrefixes == {<<>>, Http, Https, <<"f", "t", "p", ":", "/", "/">>, <<"h", "t", "t", "p", ":", "/">>}
UrlInputs == {p \o t : p \in UrlPrefixes, t \in SeqsUpTo({"a", "/"}, MaxUrlTail)}
KeyOfLen(n) == [i \in 1..n |-> "k"]
KeyInputs == {KeyOfLen(n) : n \in 0..MaxKeyLen}

\* --------------------------------------- OpenProjectSettings(...) directly
InitSettings ==
    /\ in_base_url \in UrlInputs
    /\ in_api_key \in KeyInputs
    /\ set_pc = "start"
    /\ built = Raise("not run")

SettingsIdle ==
    /\ in_base_url = <<>>
    /\ in_api_key = <<>>
    /\ set_pc = "idle"
    /\ built = Raise("not run")

\* cls(base_url=in_base_url, api_key=in_api_key)
Construct ==
    /\ set_pc = "start"
    /\ set_pc' = "done"
    /\ built' = OpenProjectSettings(Given(in_base_url), Given(in_api_key), Missing)
    /\ UNCHANGED <<in_base_url, in_api_key>>

\* ------------------------------------------- create_with_fallback (49-79)
EnvUrlValues == {<<>>, Https \o <<"a", "/">>, <<"a">>}
EnvKeyValues == {<<>>, KeyOfLen(MinApiKeyLen - 1), KeyOfLen(MinApiKeyLen)}
EnvTimeoutValues == {<<"3", "0">>, <<"a", "b", "c">>}
EnvValues(name) ==
    IF name \in {PrimaryName.base_url, SmitheryName.base_url} THEN EnvUrlValues
    ELSE IF name \in {PrimaryName.api_key, SmitheryName.api_key} THEN EnvKeyValues
    ELSE EnvTimeoutValues

\* every environment: any subset of the names set, each to one of its values
Environments ==
    UNION {{e \in [S -> UNION {EnvValues(n) : n \in S}] : \A n \in S : e[n] \in EnvValues(n)}
           : S \in SUBSET EnvNames}

NoMappings == [base_url |-> Missing, api_key |-> Missing, timeout |-> 0]

InitFallback ==
    /\ env \in Environments
    /\ cfg_pc = "start"
    /\ smithery_mappings = NoMappings
    /\ cfg_result = Raise("not run")

FallbackIdle ==
    /\ env = <<>>
    /\ cfg_pc = "idle"
    /\ smithery_mappings = NoMappings
    /\ cfg_result = Raise("not run")

\* config.py:58-62: try: return cls()  except Exception: ...
TryPrimary ==
    /\ cfg_pc = "start"
    /\ \E t \in Seen(env, "timeout") :
         LET r == SettingsFromEnv(env, t)
         IN  IF r.ok
             THEN cfg_pc' = "returned" /\ cfg_result' = r
             ELSE cfg_pc' = "except" /\ UNCHANGED cfg_result
    /\ UNCHANGED <<env, smithery_mappings>>

\* config.py:65-69: the dict literal; int(os.getenv('openprojectTimeout', '30'))
\* is evaluated while the dict is built and its ValueError leaves the method.
BuildMappings ==
    /\ cfg_pc = "except"
    /\ LET raw == GetEnv(env, SmitheryName.timeout)
           t == PyInt(IF raw = Missing THEN <<"3", "0">> ELSE ValueOf(raw))
       IN  IF t.ok
           THEN /\ smithery_mappings' = [base_url |-> GetEnv(env, SmitheryName.base_url),
                                         api_key |-> GetEnv(env, SmitheryName.api_key),
                                         timeout |-> t.val]
                /\ cfg_pc' = "mapped"
                /\ UNCHANGED cfg_result
           ELSE /\ cfg_result' = t
                /\ cfg_pc' = "raised"
                /\ UNCHANGED smithery_mappings
    /\ UNCHANGED env

\* config.py:73-79: the two required checks, then cls(**smithery_mappings);
\* the timeout is already an int there.
ValidateAndConstruct ==
    /\ cfg_pc = "mapped"
    /\ LET m == smithery_mappings
           r == OpenProjectSettings(m.base_url, m.api_key, Missing)
       IN  IF Falsy(m.base_url)
           THEN cfg_result' = Raise(RequiredMessage.base_url) /\ cfg_pc' = "raised"
           ELSE IF Falsy(m.api_key)
           THEN cfg_result' = Raise(RequiredMessage.api_key) /\ cfg_pc' = "raised"
           ELSE IF r.ok
           THEN cfg_result' = Ok([r.val EXCEPT !.timeout = m.timeout]) /\ cfg_pc' = "returned"
           ELSE cfg_result' = r /\ cfg_pc' = "raised"
    /\ UNCHANGED <<env, smithery_mappings>>

\* ----------------------------------------------- server.py: startup
\* Most operations a parsed spec.yml is enumerated with.
MaxOps == 2
\* Most outbound requests the served tools issue in the startup model.
MaxRequests == 2

\* What yaml.safe_load makes of the file: a syntax error, None (an empty
\* file), a list, or a mapping whose 'paths' entry is absent, null or a
\* mapping of n operations.
Documents ==
    {[t |-> "invalid"], [t |-> "null"], [t |-> "arr"],
     [t |-> "obj", paths |-> "absent", n |-> 0], [t |-> "obj", paths |-> "null", n |-> 0]}
    \cup {[t |-> "obj", paths |-> "obj", n |-> k] : k \in 0..MaxOps}
SpecFiles == {[exists |-> FALSE, doc |-> [t |-> "null"]]} \cup {[exists |-> TRUE, doc |-> d] : d \in Documents}

\* A faulty variant: an absent or non-mapping file loads as an empty document
load_openapi_spec_lenient(f) ==
    IF ~f.exists THEN Ok([t |-> "obj", paths |-> "absent", n |-> 0])
    ELSE IF f.doc.t # "obj" THEN Ok([t |-> "obj", paths |-> "absent", n |-> 0])
    ELSE IF f.doc.paths = "null" THEN Raise("TypeError")
    ELSE Ok(f.doc)

\* server.py:24-46
load_openapi_spec(f) ==
    IF ~f.exists THEN Raise("FileNotFoundError: OpenAPI spec file not found")
    ELSE IF f.doc.t = "invalid" THEN Raise("ValueError: Invalid YAML in OpenAPI spec")
    ELSE IF f.doc.t # "obj" THEN Raise("AttributeError")   \* openapi_spec.get on a non-dict
    ELSE IF f.doc.paths = "null" THEN Raise("TypeError")   \* len(None)
    ELSE Ok(f.doc)

\* config.get_client(), config.py:34-47: the client is built, nothing is sent
get_client(settings) == [base_url |-> settings.base_url, timeout |-> settings.timeout, requests |-> 0]
NoClient == [base_url |-> <<>>, timeout |-> 0, requests |-> 0]
NoSettings == [base_url |-> <<>>, api_key |-> <<>>, timeout |-> 0]
NoDocument == [t |-> "null"]

Tool(name, provenance) == [name |-> name, provenance |-> provenance]

\* A faulty variant: get_projects decorated twice
ManualToolsTwice == <<"get_status", "get_projects", "get_projects", "get_project_work_packages",
                      "get_overdue_work_packages", "get_user_info", "generate_weekly_report">>

\* The @mcp_server.tool() decorators of server.py:92-208, in source order
ManualTools == <<"get_status", "get_projects", "get_project_work_packages",
                 "get_overdue_work_packages", "get_user_info", "generate_weekly_report">>

\* What the translator returns for a document: one tool per operation
OperationNames == <<"list_projects", "view_project", "list_work_packages", "view_user">>
DerivedTools(doc) == [i \in 1..doc.n |-> Tool(OperationNames[i], "derived")]

\* How FastMCPOpenAPI's import and construction can end (server.py:76-84)
TranslatorOutcomes == {"ok", "ImportError", "Exception"}
NotTranslated == [outcome |-> "none", tools |-> <<>>]

InitStartup ==
    /\ env \in Environments
    /\ spec_file \in SpecFiles
    /\ main_pc = "main"
    /\ config = NoSettings
    /\ client = NoClient
    /\ openapi_spec = NoDocument
    /\ mcp_server = <<>>
    /\ fallback_taken = FALSE
    /\ translated = NotTranslated
    /\ error = ""
    /\ routes = {}

StartupIdle ==
    /\ spec_file = [exists |-> FALSE, doc |-> [t |-> "null"]]
    /\ main_pc = "idle"
    /\ config = NoSettings
    /\ client = NoClient
    /\ openapi_spec = NoDocument
    /\ mcp_server = <<>>
    /\ fallback_taken = FALSE
    /\ translated = NotTranslated
    /\ error = ""
    /\ routes = {}

\* server.py:298, 55-60: asyncio.run(create_mcp_server()) up to
\* config = OpenProjectSettings()
LoadConfig ==
    /\ main_pc = "main"
    /\ \E t \in Seen(env, "timeout") :
         LET r == SettingsFromEnv(env, t)
         IN  IF r.ok
             THEN config' = r.val /\ main_pc' = "config_loaded" /\ UNCHANGED error
             ELSE error' = r.err /\ main_pc' = "raising" /\ UNCHANGED config
    /\ UNCHANGED <<env, spec_file, client, openapi_spec, mcp_server, fallback_taken, translated, routes>>

\* server.py:64
CreateClient ==
    /\ main_pc = "config_loaded"
    /\ client' = get_client(config)
    /\ main_pc' = "client_created"
    /\ UNCHANGED <<env, spec_file, config, openapi_spec, mcp_server, fallback_taken, translated, error, routes>>

\* server.py:69, outside the inner try of line 75
LoadSpec ==
    /\ main_pc = "client_created"
    /\ LET r == load_openapi_spec(spec_file)
       IN  IF r.ok
           THEN openapi_spec' = r.val /\ main_pc' = "spec_loaded" /\ UNCHANGED error
           ELSE error' = r.err /\ main_pc' = "raising" /\ UNCHANGED openapi_spec
    /\ UNCHANGED <<env, spec_file, config, client, mcp_server, fallback_taken, translated, routes>>

\* server.py:75-89: the translator returns its server, or raises and
\* mcp_server becomes an empty FastMCP
Translate ==
    /\ main_pc = "spec_loaded"
    /\ \E outcome \in TranslatorOutcomes :
         IF outcome = "ok"
         THEN /\ translated' = [outcome |-> outcome, tools |-> DerivedTools(openapi_spec)]
              /\ mcp_server' = DerivedTools(openapi_spec)
              /\ main_pc' = "created"
              /\ UNCHANGED fallback_taken
         ELSE /\ translated' = [outcome |-> outcome, tools |-> <<>>]
              /\ fallback_taken' = TRUE
              /\ mcp_server' = <<>>
              /\ main_pc' = "registering"
    /\ UNCHANGED <<env, spec_file, config, client, openapi_spec, error, routes>>

\* server.py:92-260: each decorator registers the next manual tool
RegisterTool ==
    /\ main_pc = "registering"
    /\ Len(mcp_server) < Len(ManualTools)
    /\ mcp_server' = Append(mcp_server, Tool(ManualTools[Len(mcp_server) + 1], "manual"))
    /\ UNCHANGED <<env, spec_file, main_pc, config, client, openapi_spec, fallback_taken, translated, error, routes>>

\* server.py:262-276: the helper is defined (not registered), the server returned
FinishFallback ==
    /\ main_pc = "registering"
    /\ Len(mcp_server) = Len(ManualTools)
    /\ main_pc' = "created"
    /\ UNCHANGED <<env, spec_file, config, client, openapi_spec, mcp_server, fallback_taken, translated, error, routes>>

\* server.py:301-347: the app, its two routes, CORS
BuildApp ==
    /\ main_pc = "created"
    /\ routes' = {"/mcp", "/health", "/"}
    /\ main_pc' = "app"
    /\ UNCHANGED <<env, spec_file, config, client, openapi_spec, mcp_server, fallback_taken, translated, error>>

\* server.py:361: uvicorn.run
Listen ==
    /\ main_pc = "app"
    /\ main_pc' = "listening"
    /\ UNCHANGED <<env, spec_file, config, client, openapi_spec, mcp_server, fallback_taken, translated, error, routes>>

\* server.py:278-280 and 371-376: both handlers log and re-raise
Abort ==
    /\ main_pc = "raising"
    /\ main_pc' = "aborted"
    /\ UNCHANGED <<env, spec_file, config, client, openapi_spec, mcp_server, fallback_taken, translated, error, routes>>

\* A served tool issues an outbound GET on the shared client (server.py:102,
\* 124, 165, 201, 223-244)
ServeToolCall ==
    /\ main_pc = "listening"
    /\ mcp_server # <<>>
    /\ client.requests < MaxRequests
    /\ client' = [client EXCEPT !.requests = @ + 1]
    /\ UNCHANGED <<env, spec_file, main_pc, config, openapi_spec, mcp_server, fallback_taken, translated, error, routes>>

\* ------------------------------------------- server.py: JSON and Python
\* A decoded JSON value carries its Python type: None, int, str, list, dict.
\* An expression that raises evaluates to [t |-> "raise", e |-> <exception>].
JNull == [t |-> "null"]
JNum(n) == [t |-> "num", n |-> n]
JStr(x) == [t |-> "str", s |-> x]
JArr(a) == [t |-> "arr", a |-> a]
JObj(f) == [t |-> "obj", f |-> f]
EmptyDict == JObj([k \in {} |-> JNull])
PyRaise(e) == [t |-> "raise", e |-> e]
IsRaise(v) == v.t = "raise"

\* v.get(k, d): a dict answers, any other receiver has no .get
PyGet(v, k, d) ==
    IF IsRaise(v) THEN v
    ELSE IF v.t # "obj" THEN PyRaise("AttributeError")
    ELSE IF k \in DOMAIN v.f THEN v.f[k] ELSE d

\* A faulty variant: v[:n + 1]
PySliceInclusive(v, n) ==
    IF IsRaise(v) THEN v
    ELSE IF v.t = "arr" THEN JArr(SubSeq(v.a, 1, IF Len(v.a) < n + 1 THEN Len(v.a) ELSE n + 1))
    ELSE IF v.t = "str" THEN v
    ELSE PyRaise("TypeError")

\* v[:n]: a list keeps its first n items, a str slices to a str, anything
\* else cannot be sliced
PySlice(v, n) ==
    IF IsRaise(v) THEN v
    ELSE IF v.t = "arr" THEN JArr(SubSeq(v.a, 1, IF Len(v.a) < n THEN Len(v.a) ELSE n))
    ELSE IF v.t = "str" THEN v
    ELSE PyRaise("TypeError")

\* `for x in v`: a list yields its items; a str yields its characters and a
\* dict its keys, all strs, modelled by the first of them; None and an int
\* cannot be iterated
PyIter(v) ==
    IF IsRaise(v) THEN v
    ELSE IF v.t = "arr" THEN v
    ELSE IF v.t = "str" THEN IF v.s = "" THEN JArr(<<>>) ELSE JArr(<<v>>)
    ELSE IF v.t = "obj"
    THEN IF DOMAIN v.f = {} THEN JArr(<<>>) ELSE JArr(<<JStr(CHOOSE k \in DOMAIN v.f : TRUE)>>)
    ELSE PyRaise("TypeError")

\* [e1, e2, ...] built item by item: the first item that raises ends it
PyCollect(out) ==
    IF \E i \in 1..Len(out) : IsRaise(out[i])
    THEN out[CHOOSE i \in 1..Len(out) : IsRaise(out[i]) /\ \A j \in 1..(i - 1) : ~IsRaise(out[j])]
    ELSE JArr(out)

\* str(x) of an id: an int prints its digits, None prints "None"
PyStr(v) ==
    IF IsRaise(v) THEN v
    ELSE IF v.t = "num" /\ v.n \in 0..9 THEN JStr(Digits[v.n + 1])
    ELSE IF v.t = "str" THEN v
    ELSE JStr("None")

\* `not v`
PyFalsy(v) ==
    \/ v.t = "null"
    \/ v.t = "arr" /\ v.a = <<>>
    \/ v.t = "obj" /\ DOMAIN v.f = {}
    \/ v.t = "num" /\ v.n = 0
    \/ v.t = "str" /\ v.s = ""

\* 0 + x1 + x2 + ... over ints
RECURSIVE SumOf(_)
SumOf(items) == IF items = <<>> THEN 0 ELSE items[1].n + SumOf(Tail(items))

\* sum(items): the first item that is no number ends it, int + None and
\* int + str raising TypeError
PySum(items) ==
    IF \E i \in 1..Len(items) : items[i].t # "num"
    THEN LET i == CHOOSE j \in 1..Len(items) :
                      items[j].t # "num" /\ \A k \in 1..(j - 1) : items[k].t = "num"
         IN  IF IsRaise(items[i]) THEN items[i] ELSE PyRaise("TypeError")
    ELSE JNum(SumOf(items))

\* A faulty variant: the tenths truncated instead of rounded
RoundTenthsDown(total, n) == (10 * total) \div n

\* round(total / n, 1), in tenths: the nearest tenth, a tie going to the even
\* tenth (total / n is exact in binary at every tie for n < 20)
RoundTenths(total, n) ==
    LET q == (10 * total) \div n
        r == (10 * total) % n
    IN  IF 2 * r < n THEN q
        ELSE IF 2 * r > n THEN q + 1
        ELSE IF q % 2 = 0 THEN q ELSE q + 1

\* server.py:266-271, the body of the helper's try; the value is in tenths
CompletionTry(work_packages_data) ==
    LET work_packages == PyGet(PyGet(work_packages_data, "_embedded", EmptyDict), "elements", JArr(<<>>))
        items == PyIter(work_packages)
        values == IF IsRaise(items) THEN items
                  ELSE PyCollect([i \in 1..Len(items.a) |-> PyGet(items.a[i], "percentageDone", JNum(0))])
        total_percentage == IF IsRaise(values) THEN values ELSE PySum(values.a)
    IN  IF IsRaise(work_packages) THEN work_packages
        ELSE IF PyFalsy(work_packages) THEN JNum(0)
        ELSE IF IsRaise(total_percentage) THEN total_percentage
        ELSE JNum(RoundTenths(total_percentage.n, Len(work_packages.a)))

\* server.py:263-273: _calculate_project_completion, whose bare except
\* returns 0
CalculateProjectCompletion(work_packages_data) ==
    IF IsRaise(CompletionTry(work_packages_data)) THEN JNum(0)
    ELSE CompletionTry(work_packages_data)

\* ------------------------------------------------ the awaited client.get
\* What `await client.get(...)` gives: the call raises (a transport error),
\* or a response with a status and a body that decodes as JSON or does not.
Transport == [kind |-> "raises", status |-> 0, decodable |-> FALSE, body |-> JNull]
Response(status, body) == [kind |-> "response", status |-> status, decodable |-> TRUE, body |-> body]
Undecodable(status) == [kind |-> "response", status |-> status, decodable |-> FALSE, body |-> JNull]

Is2xx(status) == status \in 200..299

\* response.raise_for_status()
RaiseForStatus(o) == IF Is2xx(o.status) THEN JNull ELSE PyRaise("HTTPStatusError")
\* response.json()
ResponseJson(o) == IF o.decodable THEN o.body ELSE PyRaise("JSONDecodeError")

\* What a tool invocation hands back: the str it returns (its literal prefix
\* and the value formatted into it), or the exception that leaves it.
Returned(prefix, payload) == [t |-> "return", prefix |-> prefix, payload |-> payload]
NoResult == [t |-> "none"]

\* A faulty variant: no except branch, the exception leaves the tool
TryExceptReraise(prefix, r) == IF IsRaise(r) THEN r ELSE r

\* try: <body>  except Exception as e: return f"<prefix>{str(e)}"
TryExcept(prefix, r) == IF IsRaise(r) THEN Returned(prefix, JStr(r.e)) ELSE r

ErrorPrefix == [get_projects |-> "Error retrieving projects: ",
                get_project_work_packages |-> "Error retrieving project work packages: ",
                get_overdue_work_packages |-> "Error retrieving overdue work packages: ",
                get_user_info |-> "Error retrieving user info: ",
                generate_weekly_report |-> "Error generating weekly report: "]

\* The filter expressions of server.py:119, 121, 162, 236, 243
OpenFilter == <<[field |-> "status", operator |-> "o", values |-> <<>>]>>
NoFilter == <<>>
DueFilter(days) == <<[field |-> "dueDate", operator |-> "<t+", values |-> <<days>>]>>
NoParams == <<"no params">>

Get(path, filters) == [path |-> path, filters |-> filters]

ProjectWpLimit == 10
OverdueLimit == 15
ReportProjectLimit == 5
ReportDueDays == 7

\* server.py:137-144
ReshapeWp(wp) ==
    LET emb == PyGet(wp, "_embedded", EmptyDict)
        f == ("id" :> PyGet(wp, "id", JNull)) @@ ("subject" :> PyGet(wp, "subject", JNull))
             @@ ("status" :> PyGet(PyGet(emb, "status", EmptyDict), "name", JNull))
             @@ ("assignee" :> PyGet(PyGet(emb, "assignee", EmptyDict), "name", JNull))
             @@ ("dueDate" :> PyGet(wp, "dueDate", JNull))
             @@ ("percentageDone" :> PyGet(wp, "percentageDone", JNull))
    IN  IF \E k \in DOMAIN f : IsRaise(f[k]) THEN PyRaise("AttributeError") ELSE JObj(f)

\* server.py:176-184
ReshapeUrgent(wp) ==
    LET emb == PyGet(wp, "_embedded", EmptyDict)
        f == ("id" :> PyGet(wp, "id", JNull)) @@ ("subject" :> PyGet(wp, "subject", JNull))
             @@ ("project" :> PyGet(PyGet(emb, "project", EmptyDict), "name", JNull))
             @@ ("status" :> PyGet(PyGet(emb, "status", EmptyDict), "name", JNull))
             @@ ("assignee" :> PyGet(PyGet(emb, "assignee", EmptyDict), "name", JNull))
             @@ ("dueDate" :> PyGet(wp, "dueDate", JNull))
             @@ ("percentageDone" :> PyGet(wp, "percentageDone", JNull))
    IN  IF \E k \in DOMAIN f : IsRaise(f[k]) THEN PyRaise("AttributeError") ELSE JObj(f)

\* server.py:102-104, what follows the await
GetProjectsBody(o) ==
    IF o.kind = "raises" THEN PyRaise("ConnectError")
    ELSE IF IsRaise(RaiseForStatus(o)) THEN RaiseForStatus(o)
    ELSE IF IsRaise(ResponseJson(o)) THEN ResponseJson(o)
    ELSE Returned("Projects retrieved successfully: ", ResponseJson(o))

\* server.py:118-123
ProjectWpFilters(status_filter) == IF status_filter = "open" THEN OpenFilter ELSE NoFilter

\* server.py:124-148, what follows the await
ProjectWpBody(project_id, status_filter, o) ==
    LET data == ResponseJson(o)
        total_count == PyGet(data, "total", JNum(0))
        work_packages == PyGet(PyGet(data, "_embedded", EmptyDict), "elements", JArr(<<>>))
        first == PyIter(PySlice(work_packages, ProjectWpLimit))
        items == IF IsRaise(first) THEN first
                 ELSE PyCollect([i \in 1..Len(first.a) |-> ReshapeWp(first.a[i])])
    IN  IF o.kind = "raises" THEN PyRaise("ConnectError")
        ELSE IF IsRaise(RaiseForStatus(o)) THEN RaiseForStatus(o)
        ELSE IF IsRaise(total_count) THEN total_count
        ELSE IF IsRaise(items) THEN items
        ELSE Returned("Project work packages: ",
                      JObj(("project_id" :> JStr(project_id)) @@ ("total_work_packages" :> total_count)
                           @@ ("status_filter" :> JStr(status_filter)) @@ ("work_packages" :> items)))

\* server.py:165-188, what follows the await
OverdueBody(days_ahead, o) ==
    LET data == ResponseJson(o)
        total_count == PyGet(data, "total", JNum(0))
        work_packages == PyGet(PyGet(data, "_embedded", EmptyDict), "elements", JArr(<<>>))
        first == PyIter(PySlice(work_packages, OverdueLimit))
        items == IF IsRaise(first) THEN first
                 ELSE PyCollect([i \in 1..Len(first.a) |-> ReshapeUrgent(first.a[i])])
    IN  IF o.kind = "raises" THEN PyRaise("ConnectError")
        ELSE IF IsRaise(RaiseForStatus(o)) THEN RaiseForStatus(o)
        ELSE IF IsRaise(total_count) THEN total_count
        ELSE IF IsRaise(items) THEN items
        ELSE Returned("Overdue/Urgent work packages: ",
                      JObj(("days_ahead" :> JNum(days_ahead)) @@ ("total_overdue" :> total_count)
                           @@ ("urgent_work_packages" :> items)))

\* server.py:201-203, what follows the await
UserInfoBody(o) ==
    IF o.kind = "raises" THEN PyRaise("ConnectError")
    ELSE IF IsRaise(RaiseForStatus(o)) THEN RaiseForStatus(o)
    ELSE IF IsRaise(ResponseJson(o)) THEN ResponseJson(o)
    ELSE Returned("User information: ", ResponseJson(o))

\* server.py:225: the ids of the listed projects
ListedProjectIds(projects_data) ==
    LET items == PyIter(PyGet(PyGet(projects_data, "_embedded", EmptyDict), "elements", JArr(<<>>)))
    IN  IF IsRaise(items) THEN items
        ELSE PyCollect([i \in 1..Len(items.a) |-> PyStr(PyGet(items.a[i], "id", JNull))])

\* server.py:247-253
ProjectSummary(project_id, project_data, open_wp_data, overdue_data) ==
    LET f == ("project_id" :> project_id)
             @@ ("project_name" :> PyGet(project_data, "name", JNull))
             @@ ("total_open_work_packages" :> PyGet(open_wp_data, "total", JNum(0)))
             @@ ("urgent_work_packages" :> PyGet(overdue_data, "total", JNum(0)))
             @@ ("completion_percentage" :> CalculateProjectCompletion(open_wp_data))
    IN  IF \E k \in DOMAIN f : IsRaise(f[k]) THEN PyRaise("AttributeError") ELSE JObj(f)

\* ------------------------------------------------- the remote instance
\* Most projects the remote instance holds.
MaxProjects == 6
\* Longest work-package collection the remote instance serves.
MaxElems == 16
\* Longest collection enumerated with every percentageDone combination.
MaxPdLen == 4

Absent == [t |-> "absent"]
WithField(f, k, v) == IF v = Absent THEN f ELSE f @@ (k :> v)
Named(x) == JObj("name" :> JStr(x))

WpShapes == {"full", "bare", "nullstatus"}
\* Work package i of a collection, with the given percentageDone (or none)
Wp(i, shape, pd) ==
    LET emb == IF shape = "full"
               THEN JObj(("status" :> Named("New")) @@ ("assignee" :> Named("Ann")) @@ ("project" :> Named("Demo")))
               ELSE JObj("status" :> JNull)
        base == ("id" :> JNum(i))
        full == base @@ ("subject" :> JStr("task")) @@ ("dueDate" :> JStr("2025-10-24"))
    IN  JObj(WithField(IF shape = "bare" THEN base ELSE full @@ ("_embedded" :> emb), "percentageDone", pd))

Collection(total, elements) == JObj(WithField("_embedded" :> JObj("elements" :> elements), "total", total))

\* A page of n work packages: the first k of one shape, the rest of another
ShapedPages ==
    {JArr([i \in 1..n |-> Wp(i, IF i <= k THEN s1 ELSE s2, JNum(50))]) :
        n \in 0..MaxElems, k \in {0, 1, ProjectWpLimit, OverdueLimit}, s1 \in WpShapes, s2 \in WpShapes}
PdValues == {Absent, JNum(1), JNum(100), JNull}
PdPages ==
    {JArr([i \in 1..Len(pds) |-> Wp(i, "bare", pds[i])]) : pds \in SeqsUpTo(PdValues, MaxPdLen)}
OddPages ==
    {JNull, JArr(<<JStr("x")>>), JArr(<<Wp(1, "bare", JStr("50"))>>), JObj("a" :> JNum(1))}

Collections ==
    {Collection(JNum(Len(e.a) + 3), e) : e \in ShapedPages}
    \cup {Collection(Absent, e) : e \in ShapedPages \cup PdPages \cup OddPages}
    \cup {JObj("_embedded" :> JNull), EmptyDict}

IdOf(i) == Digits[i + 1]
SimpleCollection(i) ==
    Collection(JNum(i), JArr([j \in 1..(i % 3) |-> Wp(j, "full", JNum(25 * j))]))

\* The remote instances: up to MaxProjects projects with plain collections,
\* reachable or rejecting the credentials; and single-project instances
\* whose collection is any of Collections.
Remotes ==
    {[m |-> m, auth_ok |-> a, wps |-> [i \in 1..m |-> SimpleCollection(i)]] :
        m \in 0..MaxProjects, a \in BOOLEAN}
    \cup {[m |-> 1, auth_ok |-> TRUE, wps |-> [i \in 1..1 |-> c]] : c \in Collections}

ProjectsPath == <<"/api/v3/projects">>
ProjectPath(id) == <<"/api/v3/projects/", id>>
ProjectWpPath(id) == <<"/api/v3/projects/", id, "/work_packages">>
WorkPackagesPath == <<"/api/v3/work_packages">>
UserPath(id) == <<"/api/v3/users/", id>>

ErrorDocument == JObj(("_type" :> JStr("Error")) @@ ("message" :> JStr("not found or not allowed")))
Known(r, id) == \E i \in 1..r.m : IdOf(i) = id
NumberOf(id) == CHOOSE i \in 1..9 : IdOf(i) = id

\* The remote API's answer to a GET
Serve(r, call) ==
    IF ~r.auth_ok THEN Response(401, ErrorDocument)
    ELSE IF call.path = ProjectsPath
    THEN Response(200, Collection(JNum(r.m), JArr([i \in 1..r.m |-> JObj(("id" :> JNum(i)) @@ ("name" :> JStr("project")))])))
    ELSE IF call.path = WorkPackagesPath
    THEN Response(200, IF r.m = 0 THEN Collection(JNum(0), JArr(<<>>)) ELSE r.wps[1])
    ELSE IF ~Known(r, call.path[2]) THEN Response(404, ErrorDocument)
    ELSE IF Len(call.path) = 3 THEN Response(200, r.wps[NumberOf(call.path[2])])
    ELSE Response(200, JObj(("id" :> JNum(NumberOf(call.path[2]))) @@ ("name" :> JStr("project"))))

\* Every way an awaited GET can end: the remote's answer, the same answer
\* with a body that is not JSON, a JSON body that is no object, or a
\* transport error
Outcomes(r, call) ==
    {Serve(r, call), Undecodable(Serve(r, call).status), Response(200, JArr(<<>>)), Transport}

\* ------------------------------------------------ the tool invocations
NoArgs == [none |-> TRUE]
RpIdle == [pc |-> "idle", project_ids |-> <<>>, idx |-> 0, project_data |-> JNull,
           open_wp_data |-> JNull, projects_summary |-> <<>>]

ToolsIdle ==
    /\ tool = "none"
    /\ args = NoArgs
    /\ tool_pc = "idle"
    /\ calls = <<>>
    /\ rp = RpIdle
    /\ result = NoResult
    /\ answers = <<>>
    /\ raised_tool = FALSE
    /\ raised_helper = FALSE
    /\ opens = <<>>

InitTools ==
    /\ remote \in Remotes
    /\ ToolsIdle

ArgIds(r) == {IdOf(i) : i \in 1..(r.m + 1)}

\* server.py:93-95
GetStatus ==
    /\ tool_pc = "idle"
    /\ tool' = "get_status"
    /\ tool_pc' = "done"
    /\ result' = Returned("OpenProject MCP Server is running with manual API tools (enhanced fallback mode)", JNull)
    /\ UNCHANGED <<remote, args, calls, rp, answers, raised_tool, raised_helper, opens>>

\* A single-call tool up to its await
Call(name, a, get) ==
    /\ tool_pc = "idle"
    /\ tool' = name
    /\ args' = a
    /\ calls' = <<get>>
    /\ tool_pc' = "awaiting"
    /\ UNCHANGED <<remote, rp, result, answers, raised_tool, raised_helper, opens>>

\* What a single-call tool does with the outcome of its GET, inside its try
ToolBody(name, a, o) ==
    IF name = "get_projects" THEN GetProjectsBody(o)
    ELSE IF name = "get_project_work_packages" THEN ProjectWpBody(a.project_id, a.status_filter, o)
    ELSE IF name = "get_overdue_work_packages" THEN OverdueBody(a.days_ahead, o)
    ELSE UserInfoBody(o)

\* A single-call tool from its await to its return
Return(name) ==
    /\ tool = name
    /\ tool_pc = "awaiting"
    /\ \E o \in Outcomes(remote, calls[Len(calls)]) :
         \E out \in {ToolBody(name, args, o)} :
             /\ answers' = Append(answers, o)
             /\ raised_tool' = IsRaise(out)
             /\ result' = TryExcept(ErrorPrefix[name], out)
    /\ tool_pc' = "done"
    /\ UNCHANGED <<remote, tool, args, calls, rp, raised_helper, opens>>

\* server.py:99-102
GetProjects == Call("get_projects", NoArgs, Get(ProjectsPath, NoParams))
\* server.py:102-106
GetProjectsReturn == Return("get_projects")

\* server.py:109-124
GetProjectWorkPackages ==
    \E project_id \in ArgIds(remote), status_filter \in {"open", "all", "closed"} :
        Call("get_project_work_packages",
             [project_id |-> project_id, status_filter |-> status_filter],
             Get(ProjectWpPath(project_id), ProjectWpFilters(status_filter)))
\* server.py:124-151
GetProjectWorkPackagesReturn == Return("get_project_work_packages")

\* server.py:154-165
GetOverdueWorkPackages ==
    \E days_ahead \in {1, ReportDueDays} :
        Call("get_overdue_work_packages", [days_ahead |-> days_ahead],
             Get(WorkPackagesPath, DueFilter(PyStr(JNum(days_ahead)).s)))
\* server.py:165-191
GetOverdueWorkPackagesReturn == Return("get_overdue_work_packages")

\* server.py:194-201
GetUserInfo ==
    \E user_id \in ArgIds(remote) :
        Call("get_user_info", [user_id |-> user_id], Get(UserPath(user_id), NoParams))
\* server.py:201-205
GetUserInfoReturn == Return("get_user_info")

\* -------------------------------------------- generate_weekly_report
\* The project_ids arguments tried against a remote: None, and the lists
\* <<"1", ..., "n">> and their reversals up to one id the remote lacks
RECURSIVE Reverse(_)
Reverse(q) == IF q = <<>> THEN <<>> ELSE Append(Reverse(Tail(q)), Head(q))
IdLists(r) ==
    LET up == {[i \in 1..n |-> JStr(IdOf(i))] : n \in 0..(r.m + 1)}
    IN  up \cup {Reverse(q) : q \in up}
ReportArgs(r) == {[project_ids |-> JNull]} \cup {[project_ids |-> JArr(q)] : q \in IdLists(r)}

DetailGet(id) == Get(ProjectPath(id.s), NoParams)
OpenGet(id) == Get(ProjectWpPath(id.s), OpenFilter)
OverdueGet(id) == Get(ProjectWpPath(id.s), DueFilter(PyStr(JNum(ReportDueDays)).s))

\* project_ids[:5]
Limited(ids) == SubSeq(ids, 1, IF Len(ids) < ReportProjectLimit THEN Len(ids) ELSE ReportProjectLimit)

ReportDone(summary) ==
    Returned("Weekly report generated: ",
             JObj(("report_type" :> JStr("weekly_project_summary")) @@ ("generated_at" :> JStr("2025-10-20"))
                  @@ ("projects_summary" :> JArr(summary))))

\* One stretch of the coroutine: the locals after it, the GET it suspends in
\* (or none), and what it returns or raises (or nothing yet)
Stretch(locals, get, out) == [rp |-> locals, get |-> get, out |-> out]

\* server.py:215-230: from the call to the first await
ReportStart(a) ==
    IF PyFalsy(a.project_ids)
    THEN Stretch([RpIdle EXCEPT !.pc = "listing"], <<Get(ProjectsPath, NoParams)>>, NoResult)
    ELSE Stretch([RpIdle EXCEPT !.pc = "detail", !.project_ids = a.project_ids.a, !.idx = 1],
                 <<DetailGet(a.project_ids.a[1])>>, NoResult)

\* server.py:223-257: from one await to the next, or to the end of the try
ReportResume(l, o) ==
    LET data == IF o.kind = "raises" THEN PyRaise("ConnectError") ELSE ResponseJson(o)
        ids == ListedProjectIds(data)
        id == l.project_ids[l.idx]
        summary == ProjectSummary(id, l.project_data, l.open_wp_data, data)
        all == Append(l.projects_summary, summary)
    IN  IF IsRaise(data) THEN Stretch(l, <<>>, data)
        ELSE IF l.pc = "listing"
        THEN IF IsRaise(ids) THEN Stretch(l, <<>>, ids)
             ELSE IF ids.a = <<>> THEN Stretch(l, <<>>, ReportDone(<<>>))
             ELSE Stretch([l EXCEPT !.pc = "detail", !.project_ids = ids.a, !.idx = 1],
                          <<DetailGet(ids.a[1])>>, NoResult)
        ELSE IF l.pc = "detail"
        THEN Stretch([l EXCEPT !.pc = "open", !.project_data = data], <<OpenGet(id)>>, NoResult)
        ELSE IF l.pc = "open"
        THEN Stretch([l EXCEPT !.pc = "overdue", !.open_wp_data = data], <<OverdueGet(id)>>, NoResult)
        ELSE IF IsRaise(summary) THEN Stretch(l, <<>>, summary)
        ELSE IF l.idx < Len(Limited(l.project_ids))
        THEN Stretch([l EXCEPT !.pc = "detail", !.idx = @ + 1, !.projects_summary = all],
                     <<DetailGet(l.project_ids[l.idx + 1])>>, NoResult)
        ELSE Stretch([l EXCEPT !.projects_summary = all], <<>>, ReportDone(all))

\* server.py:208-230
GenerateWeeklyReport ==
    /\ tool_pc = "idle"
    /\ \E a \in ReportArgs(remote) :
         /\ args' = a
         /\ rp' = ReportStart(a).rp
         /\ calls' = ReportStart(a).get
    /\ tool' = "generate_weekly_report"
    /\ tool_pc' = "awaiting"
    /\ UNCHANGED <<remote, result, answers, raised_tool, raised_helper, opens>>

\* server.py:223-260
GenerateWeeklyReportResume ==
    /\ tool = "generate_weekly_report"
    /\ tool_pc = "awaiting"
    /\ \E o \in Outcomes(remote, calls[Len(calls)]) :
         \E s \in {ReportResume(rp, o)} :
             \E entry \in {rp.pc = "overdue" /\ ~IsRaise(s.out)} :
                 /\ answers' = Append(answers, o)
                 /\ rp' = s.rp
                 /\ calls' = calls \o s.get
                 /\ raised_tool' = IsRaise(s.out)
                 /\ raised_helper' = (raised_helper \/ (entry /\ IsRaise(CompletionTry(rp.open_wp_data))))
                 /\ opens' = IF entry THEN Append(opens, rp.open_wp_data) ELSE opens
                 /\ IF s.out = NoResult
                    THEN tool_pc' = "awaiting" /\ UNCHANGED result
                    ELSE tool_pc' = "done" /\ result' = TryExcept(ErrorPrefix.generate_weekly_report, s.out)
    /\ UNCHANGED <<remote, tool, args>>

\* ------------------------------------------------------- specifications
ConfigIdle == cfg_pc = "idle" /\ smithery_mappings = NoMappings /\ cfg_result = Raise("not run")

\* OpenProjectSettings(base_url=..., api_key=...) on every enumerated input
InitOfSettings == InitSettings /\ FallbackIdle /\ StartupIdle /\ remote = [m |-> 0] /\ ToolsIdle
NextSettings == Construct /\ UNCHANGED <<fallbackVars, startupVars, toolVars>>
SpecSettings == InitOfSettings /\ [][NextSettings]_vars

\* create_with_fallback() under every enumerated environment
InitOfFallback == InitFallback /\ SettingsIdle /\ StartupIdle /\ remote = [m |-> 0] /\ ToolsIdle
NextFallback ==
    \/ TryPrimary /\ UNCHANGED <<settingsVars, startupVars, toolVars>>
    \/ BuildMappings /\ UNCHANGED <<settingsVars, startupVars, toolVars>>
    \/ ValidateAndConstruct /\ UNCHANGED <<settingsVars, startupVars, toolVars>>
SpecFallback == InitOfFallback /\ [][NextFallback]_vars

\* main(): startup under every enumerated environment and spec.yml
InitOfStartup == InitStartup /\ SettingsIdle /\ ConfigIdle /\ remote = [m |-> 0] /\ ToolsIdle
NextStartup ==
    \/ LoadConfig /\ UNCHANGED <<settingsVars, cfg_pc, smithery_mappings, cfg_result, toolVars>>
    \/ CreateClient /\ UNCHANGED <<settingsVars, cfg_pc, smithery_mappings, cfg_result, toolVars>>
    \/ LoadSpec /\ UNCHANGED <<settingsVars, cfg_pc, smithery_mappings, cfg_result, toolVars>>
    \/ Translate /\ UNCHANGED <<settingsVars, cfg_pc, smithery_mappings, cfg_result, toolVars>>
    \/ RegisterTool /\ UNCHANGED <<settingsVars, cfg_pc, smithery_mappings, cfg_result, toolVars>>
    \/ FinishFallback /\ UNCHANGED <<settingsVars, cfg_pc, smithery_mappings, cfg_result, toolVars>>
    \/ BuildApp /\ UNCHANGED <<settingsVars, cfg_pc, smithery_mappings, cfg_result, toolVars>>
    \/ Listen /\ UNCHANGED <<settingsVars, cfg_pc, smithery_mappings, cfg_result, toolVars>>
    \/ Abort /\ UNCHANGED <<settingsVars, cfg_pc, smithery_mappings, cfg_result, toolVars>>
    \/ ServeToolCall /\ UNCHANGED <<settingsVars, cfg_pc, smithery_mappings, cfg_result, toolVars>>
SpecStartup == InitOfStartup /\ [][NextStartup]_vars

\* One invocation of a manual tool against every enumerated remote
InitOfTools == InitTools /\ SettingsIdle /\ FallbackIdle /\ StartupIdle
NextTools ==
    \/ GetStatus /\ UNCHANGED <<settingsVars, fallbackVars, startupVars>>
    \/ GetProjects /\ UNCHANGED <<settingsVars, fallbackVars, startupVars>>
    \/ GetProjectsReturn /\ UNCHANGED <<settingsVars, fallbackVars, startupVars>>
    \/ GetProjectWorkPackages /\ UNCHANGED <<settingsVars, fallbackVars, startupVars>>
    \/ GetProjectWorkPackagesReturn /\ UNCHANGED <<settingsVars, fallbackVars, startupVars>>
    \/ GetOverdueWorkPackages /\ UNCHANGED <<settingsVars, fallbackVars, startupVars>>
    \/ GetOverdueWorkPackagesReturn /\ UNCHANGED <<settingsVars, fallbackVars, startupVars>>
    \/ GetUserInfo /\ UNCHANGED <<settingsVars, fallbackVars, startupVars>>
    \/ GetUserInfoReturn /\ UNCHANGED <<settingsVars, fallbackVars, startupVars>>
    \/ GenerateWeeklyReport /\ UNCHANGED <<settingsVars, fallbackVars, startupVars>>
    \/ GenerateWeeklyReportResume /\ UNCHANGED <<settingsVars, fallbackVars, startupVars>>
SpecTools == InitOfTools /\ [][NextTools]_vars

\* ================================================================ claims

\* ---- C4 (checked under SpecSettings)
SchemePrefixed(v) == StartsWith(v, Http) \/ StartsWith(v, Https)
\* C4: whenever construction succeeds the stored base_url starts with
\* "http://" or "https://" and does not end with "/", and the stored api_key
\* has at least 10 characters; and construction succeeds for every input
\* whose base_url is scheme-prefixed and whose api_key has at least 10.
C4_SettingsInvariant ==
    set_pc = "done" =>
        /\ built.ok =>
            /\ SchemePrefixed(built.val.base_url)
            /\ (built.val.base_url = <<>> \/ built.val.base_url[Len(built.val.base_url)] # "/")
            /\ Len(built.val.api_key) >= 10
        /\ (SchemePrefixed(in_base_url) /\ Len(in_api_key) >= 10) => built.ok

\* ---- C5 (checked under SpecFallback)
AbsentBoth(f) == PrimaryName[f] \notin DOMAIN env /\ SmitheryName[f] \notin DOMAIN env
\* C5: when the base URL is set under neither name, or the API key under
\* neither, create_with_fallback ends, whatever the other variables hold, in
\* the "... is required" error of a field that is missing; and the alternate
\* path is entered only after the primary construction has raised.
C5_RequiredError ==
    /\ cfg_pc \in {"except", "mapped"} => \E t \in Seen(env, "timeout") : ~SettingsFromEnv(env, t).ok
    /\ (cfg_pc \in {"returned", "raised"} /\ (AbsentBoth("base_url") \/ AbsentBoth("api_key"))) =>
          /\ ~cfg_result.ok
          /\ \E f \in {"base_url", "api_key"} : AbsentBoth(f) /\ cfg_result.err = RequiredMessage[f]

\* ---- C2, C3, C10 (checked under SpecStartup)
Created == main_pc \in {"created", "app", "listening"}
SixManualTools == {"get_status", "get_projects", "get_project_work_packages",
                   "get_overdue_work_packages", "get_user_info", "generate_weekly_report"}
OnceEach(reg) == \A i, j \in 1..Len(reg) : reg[i].name = reg[j].name => i = j

\* C2: once the server is created, a translator that raised leaves exactly
\* the six manual tools in the registry and no derived tool; a translator
\* that succeeded leaves its own output and no manual tool; and every tool is
\* registered once.
C2_ToolSurface ==
    /\ OnceEach(mcp_server)
    /\ (Created /\ translated.outcome \in {"ImportError", "Exception"}) =>
          /\ {mcp_server[i].name : i \in 1..Len(mcp_server)} = SixManualTools
          /\ Len(mcp_server) = 6
          /\ \A i \in 1..Len(mcp_server) : mcp_server[i].provenance = "manual"
    /\ (Created /\ translated.outcome = "ok") =>
          /\ mcp_server = translated.tools
          /\ \A i \in 1..Len(mcp_server) : mcp_server[i].provenance = "derived"
    /\ Created => translated.outcome # "none"

C2_FallbackServed ==
    main_pc = "listening" /\ translated.outcome = "ImportError" /\ Len(mcp_server) = 6

\* spec.yml is absent, is not YAML, or is YAML that is no mapping
Malformed(f) == ~f.exists \/ f.doc.t \in {"invalid", "null", "arr"}

\* C3: with spec.yml absent or malformed, startup never gets past loading
\* the specification: the translator is not tried, the fallback is not
\* taken, no registry and no app exist, main never listens, and the HTTP
\* client has issued no request.
C3_MalformedSpecAborts ==
    Malformed(spec_file) =>
        /\ main_pc \in {"main", "config_loaded", "client_created", "raising", "aborted"}
        /\ translated.outcome = "none"
        /\ ~fallback_taken
        /\ mcp_server = <<>>
        /\ routes = {}
        /\ client.requests = 0

C3_AbortedAfterClient ==
    Malformed(spec_file) /\ main_pc = "aborted" /\ config # NoSettings /\ client # NoClient

PrimaryAbsent == PrimaryName.base_url \notin DOMAIN env /\ PrimaryName.api_key \notin DOMAIN env
SmitheryValid ==
    /\ SmitheryName.base_url \in DOMAIN env /\ SmitheryName.api_key \in DOMAIN env
    /\ validate_base_url(env[SmitheryName.base_url]).ok
    /\ validate_api_key(env[SmitheryName.api_key]).ok
\* C10: when the primary variables are absent and openprojectBaseUrl and
\* openprojectApiKey hold valid values, startup obtains its Settings from
\* them and does not abort with a configuration error.
C10_StartupReadsSmithery ==
    (PrimaryAbsent /\ SmitheryValid /\ main_pc # "main") =>
        /\ main_pc \notin {"raising", "aborted"}
        /\ config.base_url = validate_base_url(env[SmitheryName.base_url]).val
        /\ config.api_key = env[SmitheryName.api_key]

\* ---- C1, C6, C7, C8, C9 (checked under SpecTools)
Done == tool_pc = "done"
\* The returned strs of the model that contain the word "Error": the five
\* except-branch prefixes (no payload of the model contains it)
ContainsError(r) == r.t = "return" /\ r.prefix \in {ErrorPrefix[n] : n \in DOMAIN ErrorPrefix}
GetRaised == \E i \in 1..Len(answers) : answers[i].kind = "raises"
JsonRaised == answers # <<>> /\ answers[Len(answers)].kind = "response" /\ ~answers[Len(answers)].decodable

\* C1 as stated: wherever a GET, the decoding or the reshaping of a response
\* raises, the shaping done inside the completion helper included, the
\* invocation returns a str containing "Error" and raises nothing.
C1_EveryRaiseGivesError ==
    /\ result.t # "raise"
    /\ (Done /\ (raised_tool \/ raised_helper)) => ContainsError(result)

\* C1 as amended: no invocation raises; whenever a GET raises, or
\* raise_for_status, response.json() or the reshaping in the tool's own body
\* raises, the invocation returns the tool's "Error ..." str; an error raised
\* inside _calculate_project_completion alone leaves the report a success.
C1_ToolRaiseGivesError ==
    /\ result.t # "raise"
    /\ (Done /\ (raised_tool \/ GetRaised)) =>
          ContainsError(result) /\ result.prefix = ErrorPrefix[tool]
    /\ (Done /\ JsonRaised /\ (tool = "generate_weekly_report" \/ Is2xx(answers[Len(answers)].status))) =>
          ContainsError(result)
    /\ (Done /\ raised_helper /\ ~raised_tool) => result.prefix = "Weekly report generated: "

C1_RaisedMidReport ==
    Done /\ tool = "generate_weekly_report" /\ raised_tool /\ Len(calls) > 3 /\ ContainsError(result)

\* C6: a non-2xx response to any call of a manual tool, the calls of
\* generate_weekly_report included, makes the invocation return a str
\* containing "Error".
C6_Non2xxGivesError ==
    (Done /\ \E i \in 1..Len(answers) : answers[i].kind = "response" /\ ~Is2xx(answers[i].status))
        => ContainsError(result)

\* ---- C7
Has(v, k) == v.t = "obj" /\ k \in DOMAIN v.f
FieldOr(v, k, d) == IF k \in DOMAIN v.f THEN v.f[k] ELSE d
\* a work package whose _embedded, status and assignee are objects where present
WellFormedWp(wp) ==
    /\ wp.t = "obj"
    /\ Has(wp, "_embedded") \/ "_embedded" \notin DOMAIN wp.f
    /\ Has(wp, "_embedded") =>
          \A k \in {"status", "assignee", "project"} :
              k \in DOMAIN wp.f["_embedded"].f => wp.f["_embedded"].f[k].t = "obj"
NameOf(wp, k) ==
    IF Has(wp, "_embedded") /\ k \in DOMAIN wp.f["_embedded"].f
    THEN FieldOr(wp.f["_embedded"].f[k], "name", JNull)
    ELSE JNull
Summarised(wp) ==
    JObj(("id" :> FieldOr(wp, "id", JNull)) @@ ("subject" :> FieldOr(wp, "subject", JNull))
         @@ ("status" :> NameOf(wp, "status")) @@ ("assignee" :> NameOf(wp, "assignee"))
         @@ ("dueDate" :> FieldOr(wp, "dueDate", JNull))
         @@ ("percentageDone" :> FieldOr(wp, "percentageDone", JNull)))
MinOf(a, b) == IF a < b THEN a ELSE b
\* the answer is a 2xx JSON object {total?, _embedded: {elements: E}} whose
\* first `limit` elements are well-formed work packages
GoodPage(o, limit) ==
    /\ o.kind = "response" /\ Is2xx(o.status) /\ o.decodable
    /\ Has(o.body, "_embedded") /\ Has(o.body.f["_embedded"], "elements")
    /\ o.body.f["_embedded"].f["elements"].t = "arr"
    /\ \A i \in 1..MinOf(limit, Len(o.body.f["_embedded"].f["elements"].a)) :
          WellFormedWp(o.body.f["_embedded"].f["elements"].a[i])
PageOf(o) == o.body.f["_embedded"].f["elements"].a

\* C7: get_project_work_packages issues one GET to the project's
\* work_packages path, with the open-status filter for status_filter "open"
\* and the empty filter otherwise; on a good page its summary carries the
\* response's total (0 when absent) whatever the page length, and the first
\* min(|E|, 10) elements of the page, in order, each reshaped.
\* get_overdue_work_packages does the same with a limit of 15.
C7_WorkPackageSummary ==
    /\ tool = "get_project_work_packages" =>
          /\ Len(calls) = 1
          /\ calls[1].path = <<"/api/v3/projects/", args.project_id, "/work_packages">>
          /\ calls[1].filters = IF args.status_filter = "open" THEN OpenFilter ELSE NoFilter
          /\ (Done /\ GoodPage(answers[1], 10)) =>
                /\ result.t = "return" /\ result.prefix = "Project work packages: "
                /\ result.payload.f["total_work_packages"] = FieldOr(answers[1].body, "total", JNum(0))
                /\ Len(result.payload.f["work_packages"].a) = MinOf(Len(PageOf(answers[1])), 10)
                /\ \A i \in 1..Len(result.payload.f["work_packages"].a) :
                      result.payload.f["work_packages"].a[i] = Summarised(PageOf(answers[1])[i])
    /\ tool = "get_overdue_work_packages" =>
          /\ Len(calls) = 1
          /\ calls[1].path = <<"/api/v3/work_packages">>
          /\ (Done /\ GoodPage(answers[1], 15)) =>
                /\ result.t = "return" /\ result.prefix = "Overdue/Urgent work packages: "
                /\ result.payload.f["total_overdue"] = FieldOr(answers[1].body, "total", JNum(0))
                /\ Len(result.payload.f["urgent_work_packages"].a) = MinOf(Len(PageOf(answers[1])), 15)
                /\ \A i \in 1..Len(result.payload.f["urgent_work_packages"].a) :
                      \A k \in {"id", "subject", "status", "assignee", "dueDate", "percentageDone"} :
                          result.payload.f["urgent_work_packages"].a[i].f[k] = Summarised(PageOf(answers[1])[i]).f[k]

C7_LongPageCut ==
    /\ Done /\ tool = "get_project_work_packages" /\ args.status_filter = "all"
    /\ GoodPage(answers[1], 10)
    /\ Len(PageOf(answers[1])) > 10
    /\ result.payload.f["total_work_packages"] = JNum(Len(PageOf(answers[1])) + 3)

\* ---- C8
\* the elements behind a report entry, when the open-work-package data is
\* {_embedded: {elements: [...]}}; otherwise none
ElementsOf(d) ==
    IF Has(d, "_embedded") /\ Has(d.f["_embedded"], "elements") /\ d.f["_embedded"].f["elements"].t = "arr"
    THEN d.f["_embedded"].f["elements"].a
    ELSE <<>>
Computable(E) ==
    \A i \in 1..Len(E) : E[i].t = "obj" /\ FieldOr(E[i], "percentageDone", JNum(0)).t = "num"
RECURSIVE SumDone(_)
SumDone(E) == IF E = <<>> THEN 0 ELSE FieldOr(Head(E), "percentageDone", JNum(0)).n + SumDone(Tail(E))
Dist(a, b) == IF a < b THEN b - a ELSE a - b

\* C8: every report entry's completion_percentage (in tenths) is the average
\* of percentageDone over the project's open work packages, a missing
\* percentageDone counting 0, rounded to the nearest tenth; it is 0 when
\* there are none and 0 when the average cannot be computed, and the entry
\* is reported all the same.
C8_CompletionIsRoundedAverage ==
    /\ Len(opens) = Len(rp.projects_summary)
    /\ \A i \in 1..Len(rp.projects_summary) :
          LET E == ElementsOf(opens[i])
              c == rp.projects_summary[i].f["completion_percentage"]
          IN  /\ c.t = "num"
              /\ E = <<>> => c.n = 0
              /\ (E # <<>> /\ ~Computable(E)) => c.n = 0
              /\ (E # <<>> /\ Computable(E)) => 2 * Dist(c.n * Len(E), 10 * SumDone(E)) <= Len(E)
    /\ (Done /\ ~raised_tool /\ tool = "generate_weekly_report") =>
          result = ReportDone(rp.projects_summary)

C8_AverageRoundedUp ==
    /\ Done /\ tool = "generate_weekly_report" /\ result.prefix = "Weekly report generated: "
    /\ \E i \in 1..Len(opens) :
          /\ Len(ElementsOf(opens[i])) = 3 /\ Computable(ElementsOf(opens[i]))
          /\ SumDone(ElementsOf(opens[i])) = 2
          /\ rp.projects_summary[i].f["completion_percentage"] = JNum(7)

\* ---- C9
Failed(o) == o.kind = "raises" \/ ~Is2xx(o.status)
\* C9: once a GET of an invocation fails no further GET is issued by it;
\* the single-call tools issue at most one GET and get_status none; a
\* weekly report whose calls all succeed issues 3 * min(n, 5) GETs for its
\* n project ids, plus the listing GET exactly when project_ids is None or
\* empty, project by project in list order: detail, open, overdue.
C9_NoCallAfterFailure ==
    /\ \A i \in 1..Len(answers) : Failed(answers[i]) => Len(calls) = i
    /\ tool = "get_status" => calls = <<>>
    /\ tool \in {"get_projects", "get_project_work_packages", "get_overdue_work_packages", "get_user_info"}
          => Len(calls) <= 1
    /\ (tool = "generate_weekly_report" /\ Done /\ result.prefix = "Weekly report generated: "
        /\ \A i \in 1..Len(answers) : ~Failed(answers[i])) =>
          LET listed == PyFalsy(args.project_ids)
              ids == Limited(rp.project_ids)
              first == IF listed THEN 1 ELSE 0
          IN  /\ Len(calls) = 3 * Len(ids) + first
              /\ listed => calls[1].path = ProjectsPath
              /\ ~listed => rp.project_ids = args.project_ids.a
              /\ \A k \in 1..Len(ids) :
                    /\ calls[first + 3 * k - 2] = Get(<<"/api/v3/projects/", ids[k].s>>, NoParams)
                    /\ calls[first + 3 * k - 1] = Get(<<"/api/v3/projects/", ids[k].s, "/work_packages">>, OpenFilter)
                    /\ calls[first + 3 * k] = Get(<<"/api/v3/projects/", ids[k].s, "/work_packages">>, DueFilter("7"))

====
